---------------------------- MODULE Spec2Model ----------------------------
(***************************************************************************)
(* Operator manipulation commands of src/backend/commands/operatorcmds.c:  *)
(* DefineOperator, AlterOperator, RemoveOperatorById and the two estimator *)
(* validators, over a small pg_operator / pg_proc catalog.                 *)
(***************************************************************************)
EXTENDS Integers, Sequences, FiniteSets, TLC

VARIABLES
    pg_operator,    \* the operator catalog: oid -> row
    t_self,         \* oid -> identity of the row's current tuple version
    pg_proc,        \* the function catalog: a set of rows
    pc,             \* position of the running command
    call,           \* the command being run (or last run) and its arguments
    before,         \* pg_operator as it was when that command started
    result,         \* outcome of that command
    warnings,       \* WARNINGs that command has emitted
    tup             \* RemoveOperatorById's fetched tuple

vars == <<pg_operator, t_self, pg_proc, pc, call, before, result, warnings, tup>>

(***************************************************************************)
(* Bounds.                                                                 *)
(***************************************************************************)
MaxParams == 3      \* longest CREATE OPERATOR parameter list
MaxOptions == 2     \* longest ALTER OPERATOR option list
MaxOperators == 1   \* DefineOperator runs on catalogs of fewer rows than this
MaxTid == 2         \* most tuple versions AlterOperator may give one row
NumOperators == 3   \* rows of the catalog RemoveOperatorById starts from

(***************************************************************************)
(* Oids, users and the fixed estimator signatures.                         *)
(***************************************************************************)

InvalidOid == 0

BOOLOID == 16

INT2OID == 21

INT4OID == 23

OIDOID == 26

FLOAT8OID == 701

INTERNALOID == 2281

PG_PUBLIC_NAMESPACE == 2200

Users == {"alice", "bob", "carol"}

OidIsValid(oid) == oid # InvalidOid

\* typeId[] as ValidateRestrictionEstimator fills it
RestrictionTypeId == <<INTERNALOID, OIDOID, INTERNALOID, INT4OID>>

\* typeId[] as ValidateJoinEstimator fills it
JoinTypeId == <<INTERNALOID, OIDOID, INTERNALOID, INT2OID, INTERNALOID>>

(***************************************************************************)
(* Outcomes: a value, or the error ereport(ERROR, ...) raised.             *)
(***************************************************************************)

Ok(v) ==
    [status |-> "ok", value |-> v, errcode |-> "", errmsg |-> "",
     errname |-> "", errsig |-> <<>>]

Error(code, msg, name, sig) ==
    [status |-> "error", value |-> InvalidOid, errcode |-> code,
     errmsg |-> msg, errname |-> name, errsig |-> sig]

NoResult ==
    [status |-> "none", value |-> InvalidOid, errcode |-> "", errmsg |-> "",
     errname |-> "", errsig |-> <<>>]

(***************************************************************************)
(* Statement pieces: a DefElem is a key with an optional argument.         *)
(***************************************************************************)

NullArg == ""       \* defel->arg == NULL, and the NIL name list

DefElem(defname, arg) == [defname |-> defname, arg |-> arg, setof |-> FALSE]

SetofDefElem(defname, arg) == [defname |-> defname, arg |-> arg, setof |-> TRUE]

RECURSIVE SeqsUpTo(_, _)
\* the lists over S of length at most n
SeqsUpTo(S, n) ==
    IF n = 0 THEN {<<>>}
    ELSE LET shorter == SeqsUpTo(S, n - 1)
         IN  shorter \cup {Append(l, e) : l \in {x \in shorter : Len(x) = n - 1}, e \in S}

(***************************************************************************)
(* Collaborators: the function, type and namespace catalogs.               *)
(***************************************************************************)

ProcRow(oid, name, args, ret, acl) ==
    [oid |-> oid, proname |-> name, proargtypes |-> args,
     prorettype |-> ret, proacl |-> acl]

DefaultProcs ==
    { ProcRow(1, "f_int", <<INT4OID>>, INT4OID, Users),
      ProcRow(2, "f_int", <<INT4OID, INT4OID>>, INT4OID, Users),
      ProcRow(3, "f_bool", <<INT4OID>>, BOOLOID, Users),
      ProcRow(4, "f_bool", <<INT4OID, INT4OID>>, BOOLOID, Users),
      ProcRow(5, "eqsel", RestrictionTypeId, FLOAT8OID, Users),
      ProcRow(6, "eqjoinsel", JoinTypeId, FLOAT8OID, Users),
      ProcRow(7, "oldjoinsel", SubSeq(JoinTypeId, 1, 4), FLOAT8OID, Users),
      ProcRow(8, "privsel", RestrictionTypeId, FLOAT8OID, {"alice"}) }

\* LookupFuncName(funcname, nargs, argtypes, missing_ok)
LookupFuncName(procs, funcname, nargs, argtypes, missing_ok) ==
    LET want == SubSeq(argtypes, 1, nargs)
        hits == {p \in procs : p.proname = funcname /\ p.proargtypes = want}
    IN  IF hits # {}
        THEN Ok((CHOOSE p \in hits : TRUE).oid)
        ELSE IF missing_ok
             THEN Ok(InvalidOid)
             ELSE Error("ERRCODE_UNDEFINED_FUNCTION", "function does not exist",
                        funcname, want)

get_func_rettype(procs, funcid) ==
    (CHOOSE p \in procs : p.oid = funcid).prorettype

\* pg_proc_aclcheck(funcid, GetUserId(), ACL_EXECUTE) == ACLCHECK_OK
pg_proc_aclcheck(procs, funcid, user) ==
    user \in (CHOOSE p \in procs : p.oid = funcid).proacl

\* QualifiedNameGetCreationNamespace(names, &oprName)
QualifiedNameGetCreationNamespace(names) ==
    IF names[1] = "public" THEN Ok(PG_PUBLIC_NAMESPACE)
    ELSE Error("ERRCODE_UNDEFINED_SCHEMA", "schema does not exist", names[1], <<>>)

\* pg_namespace_aclcheck(oprNamespace, GetUserId(), ACL_CREATE) == ACLCHECK_OK
pg_namespace_aclcheck(namespace, user) ==
    namespace = PG_PUBLIC_NAMESPACE /\ user \in {"alice", "bob"}

\* typenameTypeId(NULL, typeName)
typenameTypeId(typeName) ==
    IF typeName = "int4" THEN Ok(INT4OID)
    ELSE IF typeName = "bool" THEN Ok(BOOLOID)
    ELSE Error("ERRCODE_UNDEFINED_OBJECT", "type does not exist", typeName, <<>>)

\* pg_type_aclcheck(typeId, GetUserId(), ACL_USAGE) == ACLCHECK_OK
pg_type_aclcheck(typeId, user) ==
    typeId = INT4OID \/ (typeId = BOOLOID /\ user \in {"alice", "carol"})

(***************************************************************************)
(* Collaborators: pg_operator storage.                                     *)
(***************************************************************************)

OperatorRow(name, namespace, owner, left, right, code, res, com, neg, rest, join, merge, hash) ==
    [oprname |-> name, oprnamespace |-> namespace, oprowner |-> owner,
     oprleft |-> left, oprright |-> right, oprcode |-> code,
     oprresult |-> res, oprcom |-> com, oprnegate |-> neg,
     oprrest |-> rest, oprjoin |-> join,
     oprcanmerge |-> merge, oprcanhash |-> hash]

Restrict(f, S) == [x \in S |-> f[x]]

\* CatalogTupleUpdate: the row gets new contents and a new tuple version
CatalogTupleUpdate(st, oid, row) ==
    [cat |-> [st.cat EXCEPT ![oid] = row],
     tids |-> [st.tids EXCEPT ![oid] = @ + 1]]

\* CatalogTupleInsert: a new row, in its first tuple version
CatalogTupleInsert(st, oid, row) ==
    [cat |-> (oid :> row) @@ st.cat, tids |-> (oid :> 0) @@ st.tids]

\* SearchSysCache1(OPEROID, oid): the row and the tuple version it was read at
SearchSysCache1(cat, tids, oid) ==
    [t_self |-> tids[oid], op |-> cat[oid]]

\* OperatorGet / OperatorLookup: the row with this name and these operands
OperatorGet(cat, name, namespace, left, right) ==
    LET hits == {o \in DOMAIN cat : /\ cat[o].oprname = name
                                    /\ cat[o].oprnamespace = namespace
                                    /\ cat[o].oprleft = left
                                    /\ cat[o].oprright = right}
    IN  IF hits = {} THEN InvalidOid ELSE CHOOSE o \in hits : TRUE

\* GetNewOidWithIndex: an oid no row has
GetNewOid(cat) == CHOOSE o \in 1..(Cardinality(DOMAIN cat) + 1) : o \notin DOMAIN cat

\* LookupOperWithArgs(opername, false): the row with that name and operands
LookupOperWithArgs(cat, opername) ==
    LET hits == {o \in DOMAIN cat : /\ cat[o].oprname = opername.objname
                                    /\ cat[o].oprleft = opername.objargs[1]
                                    /\ cat[o].oprright = opername.objargs[2]}
    IN  IF hits = {}
        THEN Error("ERRCODE_UNDEFINED_FUNCTION", "operator does not exist",
                   opername.objname, opername.objargs)
        ELSE Ok(CHOOSE o \in hits : TRUE)

\* pg_oper_ownercheck(oprId, GetUserId())
pg_oper_ownercheck(cat, oprId, user) == cat[oprId].oprowner = user

\* OperatorUpd's work on the commutator: drop (isDelete) or set its back link
OperatorUpdCommutator(st, baseId, commId, isDelete) ==
    IF ~(OidIsValid(commId) /\ commId \in DOMAIN st.cat) THEN st
    ELSE LET t == st.cat[commId]
         IN  IF isDelete /\ t.oprcom = baseId
             THEN CatalogTupleUpdate(st, commId, [t EXCEPT !.oprcom = InvalidOid])
             ELSE IF ~isDelete /\ t.oprcom # baseId
             THEN CatalogTupleUpdate(st, commId, [t EXCEPT !.oprcom = baseId])
             ELSE st

\* OperatorUpd's work on the negator, seeing the commutator's update
OperatorUpdNegator(st, baseId, negId, isDelete) ==
    IF ~(OidIsValid(negId) /\ negId \in DOMAIN st.cat) THEN st
    ELSE LET t == st.cat[negId]
         IN  IF isDelete /\ t.oprnegate = baseId
             THEN CatalogTupleUpdate(st, negId, [t EXCEPT !.oprnegate = InvalidOid])
             ELSE IF ~isDelete /\ t.oprnegate # baseId
             THEN CatalogTupleUpdate(st, negId, [t EXCEPT !.oprnegate = baseId])
             ELSE st

\* OperatorUpd(baseId, commId, negId, isDelete)
OperatorUpd(st, baseId, commId, negId, isDelete) ==
    OperatorUpdNegator(OperatorUpdCommutator(st, baseId, commId, isDelete),
                       baseId, negId, isDelete)

\* OperatorShellMake: a row that only reserves the name and operands
OperatorShellMake(st, name, namespace, left, right, user) ==
    CatalogTupleInsert(st, GetNewOid(st.cat),
        OperatorRow(name, namespace, user, left, right, InvalidOid,
                    InvalidOid, InvalidOid, InvalidOid, InvalidOid,
                    InvalidOid, FALSE, FALSE))

\* get_other_operator: the operator a commutator / negator clause names,
\* InvalidOid when it is the operator being defined, else a new shell
get_other_operator(st, otherName, otherLeft, otherRight, name, namespace, left, right, user) ==
    LET other == OperatorGet(st.cat, otherName, namespace, otherLeft, otherRight)
    IN  IF OidIsValid(other) THEN [st |-> st, oid |-> other]
        ELSE IF otherName = name /\ otherLeft = left /\ otherRight = right
        THEN [st |-> st, oid |-> InvalidOid]
        ELSE LET made == OperatorShellMake(st, otherName, namespace,
                                           otherLeft, otherRight, user)
             IN  [st |-> made,
                  oid |-> OperatorGet(made.cat, otherName, namespace,
                                      otherLeft, otherRight)]

\* the shape rules of I4 / I5 and their companions, as OperatorCreate has them
OperatorCreateShapeChecks(left, right, res, commutatorName, negatorName, restrictionId, joinId, canMerge, canHash) ==
    LET bad(msg) == Error("ERRCODE_INVALID_FUNCTION_DEFINITION", msg, "", <<>>)
        binary == OidIsValid(left) /\ OidIsValid(right)
    IN  IF ~binary /\ commutatorName # NullArg
        THEN bad("only binary operators can have commutators")
        ELSE IF ~binary /\ OidIsValid(joinId)
        THEN bad("only binary operators can have join selectivity")
        ELSE IF ~binary /\ canMerge
        THEN bad("only binary operators can merge join")
        ELSE IF ~binary /\ canHash
        THEN bad("only binary operators can hash")
        ELSE IF res # BOOLOID /\ negatorName # NullArg
        THEN bad("only boolean operators can have negators")
        ELSE IF res # BOOLOID /\ OidIsValid(restrictionId)
        THEN bad("only boolean operators can have restriction selectivity")
        ELSE IF res # BOOLOID /\ OidIsValid(joinId)
        THEN bad("only boolean operators can have join selectivity")
        ELSE IF res # BOOLOID /\ canMerge
        THEN bad("only boolean operators can merge join")
        ELSE IF res # BOOLOID /\ canHash
        THEN bad("only boolean operators can hash")
        ELSE NoResult

\* OperatorCreate, last part: writes the row (filling the shell `existing`
\* if there is one) and makes the commutator and negator point back
OperatorCreateStore(st1, def, existing, operatorObjectId, comOid, negOid) ==
    LET commutatorId == IF def.commutatorName # NullArg /\ ~OidIsValid(comOid)
                        THEN operatorObjectId ELSE comOid
        negatorId == IF def.negatorName # NullArg /\ ~OidIsValid(negOid)
                     THEN operatorObjectId ELSE negOid
        row == OperatorRow(def.name, def.namespace, def.user, def.left,
                           def.right, def.procedureId, def.res, commutatorId,
                           negatorId, def.restrictionId, def.joinId,
                           def.canMerge, def.canHash)
        st2 == IF OidIsValid(existing)
               THEN CatalogTupleUpdate(st1, operatorObjectId, row)
               ELSE CatalogTupleInsert(st1, operatorObjectId, row)
    IN  IF OidIsValid(commutatorId) \/ OidIsValid(negatorId)
        THEN OperatorUpd(st2, operatorObjectId, commutatorId, negatorId, FALSE)
        ELSE st2

\* OperatorCreate, once the commutator and negator are resolved: both must
\* be the caller's if they existed before
OperatorCreateLinked(cat, tids, def, existing, com, neg) ==
    IF (OidIsValid(com.oid) /\ com.oid \in DOMAIN cat
            /\ cat[com.oid].oprowner # def.user)
       \/ (OidIsValid(neg.oid) /\ neg.oid \in DOMAIN cat
            /\ cat[neg.oid].oprowner # def.user)
    THEN [result |-> Error("ERRCODE_INSUFFICIENT_PRIVILEGE",
                           "must be owner of operator", "", <<>>),
          cat |-> cat, tids |-> tids]
    ELSE LET operatorObjectId == IF OidIsValid(existing) THEN existing
                                 ELSE GetNewOid(neg.st.cat)
             st3 == OperatorCreateStore(neg.st, def, existing,
                                        operatorObjectId, com.oid, neg.oid)
         IN  [result |-> Ok(operatorObjectId), cat |-> st3.cat,
              tids |-> st3.tids]

\* OperatorCreate, resolving the negator after the commutator
OperatorCreateNegator(cat, tids, def, existing, com) ==
    OperatorCreateLinked(cat, tids, def, existing, com,
        IF def.negatorName # NullArg
        THEN get_other_operator(com.st, def.negatorName, def.left, def.right,
                                def.name, def.namespace, def.left, def.right,
                                def.user)
        ELSE [st |-> com.st, oid |-> InvalidOid])

\* OperatorCreate, resolving the commutator (itself, an existing operator
\* or a new shell)
OperatorCreateCommutator(cat, tids, def, existing) ==
    OperatorCreateNegator(cat, tids, def, existing,
        IF def.commutatorName # NullArg
        THEN get_other_operator([cat |-> cat, tids |-> tids],
                                def.commutatorName, def.right, def.left,
                                def.name, def.namespace, def.left, def.right,
                                def.user)
        ELSE [st |-> [cat |-> cat, tids |-> tids], oid |-> InvalidOid])

\* OperatorCreate, from the shape checks on: refuses a duplicate and a shell
\* of another owner
OperatorCreateChecked(cat, tids, def, shape, existing) ==
    IF shape.status = "error"
    THEN [result |-> shape, cat |-> cat, tids |-> tids]
    ELSE IF OidIsValid(existing) /\ OidIsValid(cat[existing].oprcode)
    THEN [result |-> Error("ERRCODE_DUPLICATE_FUNCTION",
                           "operator already exists", def.name, <<>>),
          cat |-> cat, tids |-> tids]
    ELSE IF OidIsValid(existing) /\ cat[existing].oprowner # def.user
    THEN [result |-> Error("ERRCODE_INSUFFICIENT_PRIVILEGE",
                           "must be owner of operator", def.name, <<>>),
          cat |-> cat, tids |-> tids]
    ELSE OperatorCreateCommutator(cat, tids, def, existing)

\* OperatorCreate: checks the shape, refuses a duplicate, resolves the
\* commutator and negator, writes the row and sets the back links
OperatorCreate(cat, tids, procs, name, namespace, left, right, procedureId, commutatorName, negatorName, restrictionId, joinId, canMerge, canHash, user) ==
    OperatorCreateChecked(cat, tids,
        [name |-> name, namespace |-> namespace, left |-> left,
         right |-> right, procedureId |-> procedureId,
         res |-> get_func_rettype(procs, procedureId),
         commutatorName |-> commutatorName, negatorName |-> negatorName,
         restrictionId |-> restrictionId, joinId |-> joinId,
         canMerge |-> canMerge, canHash |-> canHash, user |-> user],
        OperatorCreateShapeChecks(left, right,
                                  get_func_rettype(procs, procedureId),
                                  commutatorName, negatorName, restrictionId,
                                  joinId, canMerge, canHash),
        OperatorGet(cat, name, namespace, left, right))

(***************************************************************************)
(* ValidateRestrictionEstimator and ValidateJoinEstimator                  *)
(***************************************************************************)

ValidateRestrictionEstimator(procs, restrictionName, user) ==
    LET found == LookupFuncName(procs, restrictionName, 4, RestrictionTypeId, FALSE)
        restrictionOid == found.value
    IN  IF found.status = "error" THEN found
        ELSE IF get_func_rettype(procs, restrictionOid) # FLOAT8OID
        THEN Error("ERRCODE_INVALID_OBJECT_DEFINITION",
                   "restriction estimator function must return type float8",
                   restrictionName, <<>>)
        ELSE IF ~pg_proc_aclcheck(procs, restrictionOid, user)
        THEN Error("ERRCODE_INSUFFICIENT_PRIVILEGE",
                   "permission denied for function", restrictionName, <<>>)
        ELSE Ok(restrictionOid)

\* the checks after the lookups: return type, then EXECUTE privilege
JoinEstimatorChecks(procs, joinName, joinOid, user) ==
    IF get_func_rettype(procs, joinOid) # FLOAT8OID
    THEN Error("ERRCODE_INVALID_OBJECT_DEFINITION",
               "join estimator function must return type float8",
               joinName, <<>>)
    ELSE IF ~pg_proc_aclcheck(procs, joinOid, user)
    THEN Error("ERRCODE_INSUFFICIENT_PRIVILEGE",
               "permission denied for function", joinName, <<>>)
    ELSE Ok(joinOid)

\* a plausible slip: the 5-argument form silently wins when both forms exist
ValidateJoinEstimatorPrefer5(procs, joinName, user) ==
    LET joinOid == LookupFuncName(procs, joinName, 5, JoinTypeId, TRUE).value
        joinOid2 == LookupFuncName(procs, joinName, 4, JoinTypeId, TRUE).value
    IN  IF OidIsValid(joinOid)
        THEN JoinEstimatorChecks(procs, joinName, joinOid, user)
        ELSE IF OidIsValid(joinOid2)
        THEN JoinEstimatorChecks(procs, joinName, joinOid2, user)
        ELSE LookupFuncName(procs, joinName, 5, JoinTypeId, FALSE)

ValidateJoinEstimator(procs, joinName, user) ==
    LET joinOid == LookupFuncName(procs, joinName, 5, JoinTypeId, TRUE).value
        joinOid2 == LookupFuncName(procs, joinName, 4, JoinTypeId, TRUE).value
    IN  IF OidIsValid(joinOid)
        THEN IF OidIsValid(joinOid2)
             THEN Error("ERRCODE_AMBIGUOUS_FUNCTION",
                        "join estimator function has multiple matches",
                        joinName, <<>>)
             ELSE JoinEstimatorChecks(procs, joinName, joinOid, user)
        ELSE IF OidIsValid(joinOid2)
        THEN JoinEstimatorChecks(procs, joinName, joinOid2, user)
        ELSE \* not found: reference the 5-argument signature in the error
             LookupFuncName(procs, joinName, 5, JoinTypeId, FALSE)

(***************************************************************************)
(* DefineOperator                                                          *)
(***************************************************************************)

DefineLoopStart ==
    [canMerge |-> FALSE, canHash |-> FALSE, functionName |-> NullArg,
     typeName1 |-> NullArg, typeName2 |-> NullArg,
     commutatorName |-> NullArg, negatorName |-> NullArg,
     restrictionName |-> NullArg, joinName |-> NullArg,
     warnings |-> 0, error |-> NoResult]

\* defGetBoolean(defel): no argument means true
defGetBoolean(defel) == defel.arg \in {NullArg, "true"}

SetofError ==
    Error("ERRCODE_INVALID_FUNCTION_DEFINITION",
          "SETOF type not allowed for operator argument", "", <<>>)

\* a plausible slip: an unrecognized parameter is an error, as in ALTER
DefineOptionStrict(st, defel) ==
    IF defel.defname \in {"leftarg", "rightarg"} /\ defel.setof
    THEN [st EXCEPT !.error = SetofError]
    ELSE IF defel.defname = "leftarg" THEN [st EXCEPT !.typeName1 = defel.arg]
    ELSE IF defel.defname = "rightarg" THEN [st EXCEPT !.typeName2 = defel.arg]
    ELSE IF defel.defname \in {"function", "procedure"}
    THEN [st EXCEPT !.functionName = defel.arg]
    ELSE IF defel.defname = "commutator" THEN [st EXCEPT !.commutatorName = defel.arg]
    ELSE IF defel.defname = "negator" THEN [st EXCEPT !.negatorName = defel.arg]
    ELSE IF defel.defname = "restrict" THEN [st EXCEPT !.restrictionName = defel.arg]
    ELSE IF defel.defname = "join" THEN [st EXCEPT !.joinName = defel.arg]
    ELSE IF defel.defname = "hashes" THEN [st EXCEPT !.canHash = defGetBoolean(defel)]
    ELSE IF defel.defname = "merges" THEN [st EXCEPT !.canMerge = defGetBoolean(defel)]
    ELSE IF defel.defname \in {"sort1", "sort2", "ltcmp", "gtcmp"}
    THEN [st EXCEPT !.canMerge = TRUE]
    ELSE [st EXCEPT !.error = Error("ERRCODE_SYNTAX_ERROR",
                                    "operator attribute not recognized",
                                    defel.defname, <<>>)]

\* one iteration of the loop over the definition list
DefineOption(st, defel) ==
    IF defel.defname = "leftarg"
    THEN IF defel.setof THEN [st EXCEPT !.typeName1 = defel.arg, !.error = SetofError]
         ELSE [st EXCEPT !.typeName1 = defel.arg]
    ELSE IF defel.defname = "rightarg"
    THEN IF defel.setof THEN [st EXCEPT !.typeName2 = defel.arg, !.error = SetofError]
         ELSE [st EXCEPT !.typeName2 = defel.arg]
    ELSE IF defel.defname = "function" THEN [st EXCEPT !.functionName = defel.arg]
    ELSE IF defel.defname = "procedure" THEN [st EXCEPT !.functionName = defel.arg]
    ELSE IF defel.defname = "commutator" THEN [st EXCEPT !.commutatorName = defel.arg]
    ELSE IF defel.defname = "negator" THEN [st EXCEPT !.negatorName = defel.arg]
    ELSE IF defel.defname = "restrict" THEN [st EXCEPT !.restrictionName = defel.arg]
    ELSE IF defel.defname = "join" THEN [st EXCEPT !.joinName = defel.arg]
    ELSE IF defel.defname = "hashes" THEN [st EXCEPT !.canHash = defGetBoolean(defel)]
    ELSE IF defel.defname = "merges" THEN [st EXCEPT !.canMerge = defGetBoolean(defel)]
    ELSE IF defel.defname \in {"sort1", "sort2", "ltcmp", "gtcmp"}
    THEN [st EXCEPT !.canMerge = TRUE]
    ELSE \* WARNING, not ERROR
         [st EXCEPT !.warnings = @ + 1]

RECURSIVE DefineLoop(_, _, _)
\* foreach(pl, parameters), leaving at the first ereport(ERROR)
DefineLoop(parameters, i, st) ==
    IF i > Len(parameters) \/ st.error.status = "error" THEN st
    ELSE DefineLoop(parameters, i + 1, DefineOption(st, parameters[i]))

\* a plausible slip: the right-argument test comes first
DefineArgTypeChecksPostfixFirst(typeId1, typeId2) ==
    IF ~OidIsValid(typeId2)
    THEN Error("ERRCODE_INVALID_FUNCTION_DEFINITION",
               "operator right argument type must be specified",
               "Postfix operators are not supported.", <<>>)
    ELSE NoResult

\* both operand types missing, or only the right one
DefineArgTypeChecks(typeId1, typeId2) ==
    IF ~OidIsValid(typeId1) /\ ~OidIsValid(typeId2)
    THEN Error("ERRCODE_INVALID_FUNCTION_DEFINITION",
               "operator argument types must be specified", "", <<>>)
    ELSE IF ~OidIsValid(typeId2)
    THEN Error("ERRCODE_INVALID_FUNCTION_DEFINITION",
               "operator right argument type must be specified",
               "Postfix operators are not supported.", <<>>)
    ELSE NoResult

\* a plausible slip: the join estimator is never looked up nor passed on
DefineEstimatorsNoJoin(procs, st, user) ==
    LET rest == IF st.restrictionName # NullArg
                THEN ValidateRestrictionEstimator(procs, st.restrictionName, user)
                ELSE Ok(InvalidOid)
    IN  IF rest.status = "error" THEN [error |-> rest]
        ELSE [error |-> NoResult, restrictionOid |-> rest.value,
              joinOid |-> InvalidOid]

\* "Look up restriction and join estimators if specified"
DefineEstimators(procs, st, user) ==
    LET rest == IF st.restrictionName # NullArg
                THEN ValidateRestrictionEstimator(procs, st.restrictionName, user)
                ELSE Ok(InvalidOid)
    IN  IF rest.status = "error" THEN [error |-> rest]
        ELSE LET join == IF st.joinName # NullArg
                         THEN ValidateJoinEstimator(procs, st.joinName, user)
                         ELSE Ok(InvalidOid)
             IN  IF join.status = "error" THEN [error |-> join]
                 ELSE [error |-> NoResult, restrictionOid |-> rest.value,
                       joinOid |-> join.value]

\* the look-up of the underlying function: nargs and typeId[] by shape
DefineFunctionLookup(procs, functionName, typeId1, typeId2) ==
    IF ~OidIsValid(typeId1)
    THEN LookupFuncName(procs, functionName, 1, <<typeId2>>, FALSE)
    ELSE IF ~OidIsValid(typeId2)
    THEN LookupFuncName(procs, functionName, 1, <<typeId1>>, FALSE)
    ELSE LookupFuncName(procs, functionName, 2, <<typeId1, typeId2>>, FALSE)

TypeDenied(typeId) ==
    Error("ERRCODE_INSUFFICIENT_PRIVILEGE", "permission denied for type", "",
          <<typeId>>)

\* DefineOperator from the type look-ups on, given the folded parameters
DefineResolved(cat, tids, procs, oprName, oprNamespace, st, user) ==
    LET fail(err) == [result |-> err, cat |-> cat, tids |-> tids]
        type1 == IF st.typeName1 # NullArg THEN typenameTypeId(st.typeName1)
                 ELSE Ok(InvalidOid)
        type2 == IF st.typeName2 # NullArg THEN typenameTypeId(st.typeName2)
                 ELSE Ok(InvalidOid)
        typeId1 == type1.value
        typeId2 == type2.value
        argcheck == DefineArgTypeChecks(typeId1, typeId2)
    IN  IF type1.status = "error" THEN fail(type1)
        ELSE IF type2.status = "error" THEN fail(type2)
        ELSE IF argcheck.status = "error" THEN fail(argcheck)
        ELSE IF st.typeName1 # NullArg /\ ~pg_type_aclcheck(typeId1, user)
        THEN fail(TypeDenied(typeId1))
        ELSE IF st.typeName2 # NullArg /\ ~pg_type_aclcheck(typeId2, user)
        THEN fail(TypeDenied(typeId2))
        ELSE
        LET func == DefineFunctionLookup(procs, st.functionName, typeId1, typeId2)
            functionOid == func.value
        IN  IF func.status = "error" THEN fail(func)
            ELSE IF ~pg_proc_aclcheck(procs, functionOid, user)
            THEN fail(Error("ERRCODE_INSUFFICIENT_PRIVILEGE",
                            "permission denied for function",
                            st.functionName, <<>>))
            ELSE IF ~pg_type_aclcheck(get_func_rettype(procs, functionOid), user)
            THEN fail(TypeDenied(get_func_rettype(procs, functionOid)))
            ELSE
            LET est == DefineEstimators(procs, st, user)
            IN  IF est.error.status = "error" THEN fail(est.error)
                ELSE OperatorCreate(cat, tids, procs, oprName, oprNamespace,
                                    typeId1, typeId2, functionOid,
                                    st.commutatorName, st.negatorName,
                                    est.restrictionOid, est.joinOid,
                                    st.canMerge, st.canHash, user)

\* the whole of DefineOperator(names, parameters)
DefineOperatorEval(cat, tids, procs, names, parameters, user) ==
    LET fail(err, w) == [result |-> err, cat |-> cat, tids |-> tids,
                         warnings |-> w]
        nsp == QualifiedNameGetCreationNamespace(names)
    IN  IF nsp.status = "error" THEN fail(nsp, 0)
        ELSE IF ~pg_namespace_aclcheck(nsp.value, user)
        THEN fail(Error("ERRCODE_INSUFFICIENT_PRIVILEGE",
                        "permission denied for schema", names[1], <<>>), 0)
        ELSE
        LET st == DefineLoop(parameters, 1, DefineLoopStart)
        IN  IF st.error.status = "error" THEN fail(st.error, st.warnings)
            ELSE IF st.functionName = NullArg
            THEN fail(Error("ERRCODE_INVALID_FUNCTION_DEFINITION",
                            "operator function must be specified", "", <<>>),
                      st.warnings)
            ELSE LET out == DefineResolved(cat, tids, procs, names[2],
                                           nsp.value, st, user)
                 IN  [result |-> out.result, cat |-> out.cat,
                      tids |-> out.tids, warnings |-> st.warnings]

(***************************************************************************)
(* AlterOperator                                                           *)
(***************************************************************************)

ImmutableOptions ==
    {"leftarg", "rightarg", "function", "procedure", "commutator", "negator",
     "hashes", "merges"}

AlterLoopStart ==
    [restrictionName |-> NullArg, updateRestriction |-> FALSE,
     joinName |-> NullArg, updateJoin |-> FALSE, error |-> NoResult]

\* a plausible slip: an unrecognized option is skipped, as CREATE does
AlterOptionLenient(st, defel) ==
    IF defel.defname = "restrict"
    THEN [st EXCEPT !.restrictionName = defel.arg, !.updateRestriction = TRUE]
    ELSE IF defel.defname = "join"
    THEN [st EXCEPT !.joinName = defel.arg, !.updateJoin = TRUE]
    ELSE IF defel.defname \in ImmutableOptions
    THEN [st EXCEPT !.error = Error("ERRCODE_SYNTAX_ERROR",
                                    "operator attribute cannot be changed",
                                    defel.defname, <<>>)]
    ELSE st

\* one iteration of the "Process options" loop
AlterOption(st, defel) ==
    IF defel.defname = "restrict"
    THEN [st EXCEPT !.restrictionName = defel.arg, !.updateRestriction = TRUE]
    ELSE IF defel.defname = "join"
    THEN [st EXCEPT !.joinName = defel.arg, !.updateJoin = TRUE]
    ELSE IF defel.defname \in ImmutableOptions
    THEN [st EXCEPT !.error = Error("ERRCODE_SYNTAX_ERROR",
                                    "operator attribute cannot be changed",
                                    defel.defname, <<>>)]
    ELSE [st EXCEPT !.error = Error("ERRCODE_SYNTAX_ERROR",
                                    "operator attribute not recognized",
                                    defel.defname, <<>>)]

RECURSIVE AlterLoop(_, _, _)
\* foreach(pl, stmt->options), leaving at the first ereport(ERROR)
AlterLoop(options, i, st) ==
    IF i > Len(options) \/ st.error.status = "error" THEN st
    ELSE AlterLoop(options, i + 1, AlterOption(st, options[i]))

\* the estimator named by an option, or InvalidOid for NONE / not given
AlterRestriction(procs, st, user) ==
    IF st.restrictionName # NullArg
    THEN ValidateRestrictionEstimator(procs, st.restrictionName, user)
    ELSE Ok(InvalidOid)

AlterJoin(procs, st, user) ==
    IF st.joinName # NullArg
    THEN ValidateJoinEstimator(procs, st.joinName, user)
    ELSE Ok(InvalidOid)

\* a plausible slip: the estimators are looked up before the owner check
AlterCheckAndLookupLate(cat, procs, oprId, st, user) ==
    LET rest == AlterRestriction(procs, st, user)
        join == AlterJoin(procs, st, user)
    IN  IF rest.status = "error" THEN [error |-> rest]
        ELSE IF join.status = "error" THEN [error |-> join]
        ELSE IF ~pg_oper_ownercheck(cat, oprId, user)
        THEN [error |-> Error("ERRCODE_INSUFFICIENT_PRIVILEGE",
                              "must be owner of operator",
                              cat[oprId].oprname, <<>>)]
        ELSE [error |-> NoResult, restrictionOid |-> rest.value,
              joinOid |-> join.value]

\* "Check permissions. Must be owner.", then the estimator look-ups
AlterCheckAndLookup(cat, procs, oprId, st, user) ==
    IF ~pg_oper_ownercheck(cat, oprId, user)
    THEN [error |-> Error("ERRCODE_INSUFFICIENT_PRIVILEGE",
                          "must be owner of operator",
                          cat[oprId].oprname, <<>>)]
    ELSE LET rest == AlterRestriction(procs, st, user)
         IN  IF rest.status = "error" THEN [error |-> rest]
             ELSE LET join == AlterJoin(procs, st, user)
                  IN  IF join.status = "error" THEN [error |-> join]
                      ELSE [error |-> NoResult, restrictionOid |-> rest.value,
                            joinOid |-> join.value]

\* a plausible slip: the binary-operator test is left out
AlterShapeChecksNoBinary(oprForm, restrictionOid, joinOid) ==
    IF oprForm.oprresult # BOOLOID /\ OidIsValid(restrictionOid)
    THEN Error("ERRCODE_INVALID_FUNCTION_DEFINITION",
               "only boolean operators can have restriction selectivity",
               "", <<>>)
    ELSE IF oprForm.oprresult # BOOLOID /\ OidIsValid(joinOid)
    THEN Error("ERRCODE_INVALID_FUNCTION_DEFINITION",
               "only boolean operators can have join selectivity", "", <<>>)
    ELSE NoResult

\* a plausible slip: the restriction test of a non-boolean operator is left out
AlterShapeChecksNoRestriction(oprForm, restrictionOid, joinOid) ==
    IF ~(OidIsValid(oprForm.oprleft) /\ OidIsValid(oprForm.oprright))
       /\ OidIsValid(joinOid)
    THEN Error("ERRCODE_INVALID_FUNCTION_DEFINITION",
               "only binary operators can have join selectivity", "", <<>>)
    ELSE IF oprForm.oprresult # BOOLOID /\ OidIsValid(joinOid)
    THEN Error("ERRCODE_INVALID_FUNCTION_DEFINITION",
               "only boolean operators can have join selectivity", "", <<>>)
    ELSE NoResult

\* "Perform additional checks, like OperatorCreate does"
AlterShapeChecks(oprForm, restrictionOid, joinOid) ==
    IF ~(OidIsValid(oprForm.oprleft) /\ OidIsValid(oprForm.oprright))
       /\ OidIsValid(joinOid)
    THEN Error("ERRCODE_INVALID_FUNCTION_DEFINITION",
               "only binary operators can have join selectivity", "", <<>>)
    ELSE IF oprForm.oprresult # BOOLOID /\ OidIsValid(restrictionOid)
    THEN Error("ERRCODE_INVALID_FUNCTION_DEFINITION",
               "only boolean operators can have restriction selectivity",
               "", <<>>)
    ELSE IF oprForm.oprresult # BOOLOID /\ OidIsValid(joinOid)
    THEN Error("ERRCODE_INVALID_FUNCTION_DEFINITION",
               "only boolean operators can have join selectivity", "", <<>>)
    ELSE NoResult

\* a plausible slip: both estimator columns are always replaced
AlterModifyTupleBoth(oprForm, st, restrictionOid, joinOid) ==
    [oprForm EXCEPT !.oprrest = restrictionOid, !.oprjoin = joinOid]

\* heap_modify_tuple with replaces[] set for the updated columns only
AlterModifyTuple(oprForm, st, restrictionOid, joinOid) ==
    [oprForm EXCEPT
        !.oprrest = IF st.updateRestriction THEN restrictionOid ELSE @,
        !.oprjoin = IF st.updateJoin THEN joinOid ELSE @]

\* the whole of AlterOperator(stmt): the outcome and the catalog it leaves
AlterOperatorEval(cat, tids, procs, stmt, user) ==
    LET unchanged(err) == [result |-> err, cat |-> cat, tids |-> tids]
        found == LookupOperWithArgs(cat, stmt.opername)
    IN  IF found.status = "error" THEN unchanged(found)
        ELSE
        LET oprId == found.value
            oprForm == cat[oprId]
            st == AlterLoop(stmt.options, 1, AlterLoopStart)
        IN  IF st.error.status = "error" THEN unchanged(st.error)
            ELSE
            LET looked == AlterCheckAndLookup(cat, procs, oprId, st, user)
            IN  IF looked.error.status = "error" THEN unchanged(looked.error)
                ELSE
                LET shape == AlterShapeChecks(oprForm, looked.restrictionOid,
                                              looked.joinOid)
                IN  IF shape.status = "error" THEN unchanged(shape)
                    ELSE
                    LET new == CatalogTupleUpdate(
                                   [cat |-> cat, tids |-> tids], oprId,
                                   AlterModifyTuple(oprForm, st,
                                                    looked.restrictionOid,
                                                    looked.joinOid))
                    IN  [result |-> Ok(oprId), cat |-> new.cat,
                         tids |-> new.tids]

(***************************************************************************)
(* RemoveOperatorById: the tests it makes.                                 *)
(***************************************************************************)

\* a plausible slip: only a commutator link triggers the reset
LinksToResetComOnly(op) == OidIsValid(op.oprcom)

\* the test guarding the OperatorUpd call
LinksToReset(op) == OidIsValid(op.oprcom) \/ OidIsValid(op.oprnegate)

\* a plausible slip: only the self-commutator case re-fetches
NeedRefetchComOnly(operOid, op) == operOid = op.oprcom

\* the test guarding the re-fetch
NeedRefetch(operOid, op) == operOid = op.oprcom \/ operOid = op.oprnegate

(***************************************************************************)
(* The commands as actions.  A command runs when the session is idle; its  *)
(* arguments, the catalog it started from and its outcome stay visible     *)
(* until CommandComplete hands the outcome back to the caller.             *)
(***************************************************************************)

NoCall == [cmd |-> "none"]

NoTup == [t_self |-> 0, op |-> [oprcom |-> InvalidOid, oprnegate |-> InvalidOid]]

\* the parameters CREATE OPERATOR statements are built from
DefineParamChoices ==
    { DefElem("leftarg", "int4"), DefElem("rightarg", "int4"),
      SetofDefElem("leftarg", "int4"),
      DefElem("function", "f_bool"), DefElem("procedure", "f_int"),
      DefElem("restrict", "eqsel"), DefElem("join", "eqjoinsel"),
      DefElem("join", "nosuchsel"),
      DefElem("commutator", "="), DefElem("negator", "<>"),
      DefElem("sort1", NullArg), DefElem("foo", "bar") }

\* DefineOperator(names, parameters) run by one of these users on a list of
\* these parameters
DefineOperatorWith(users, choices) ==
    /\ pc = "idle"
    /\ Cardinality(DOMAIN pg_operator) < MaxOperators
    /\ \E user \in users, parameters \in SeqsUpTo(choices, MaxParams) :
          LET names == <<"public", "=">>
              out == DefineOperatorEval(pg_operator, t_self, pg_proc, names,
                                        parameters, user)
          IN  /\ call' = [cmd |-> "define", names |-> names,
                          parameters |-> parameters, user |-> user]
              /\ result' = out.result
              /\ pg_operator' = out.cat
              /\ t_self' = out.tids
              /\ warnings' = out.warnings
    /\ before' = pg_operator
    /\ pc' = "done"
    /\ UNCHANGED <<pg_proc, tup>>

DefineOperator == DefineOperatorWith(Users, DefineParamChoices)

\* the options ALTER OPERATOR statements are built from
AlterOptionChoices ==
    { DefElem("restrict", "eqsel"), DefElem("restrict", NullArg),
      DefElem("restrict", "nosuchsel"), DefElem("restrict", "privsel"),
      DefElem("join", "eqjoinsel"), DefElem("join", NullArg),
      DefElem("join", "oldjoinsel"),
      DefElem("leftarg", "int4"), DefElem("sort1", NullArg),
      DefElem("foo", "bar") }

\* the operators ALTER OPERATOR statements name: each row, and a missing one
AlterOperatorRefs(cat) ==
    {[objname |-> cat[o].oprname,
      objargs |-> <<cat[o].oprleft, cat[o].oprright>>] : o \in DOMAIN cat}
    \cup {[objname |-> "nosuchop", objargs |-> <<INT4OID, INT4OID>>]}

\* AlterOperator(stmt) run by one of these users on a list of these options
AlterOperatorWith(users, choices) ==
    /\ pc = "idle"
    /\ \A o \in DOMAIN t_self : t_self[o] < MaxTid
    /\ \E opername \in AlterOperatorRefs(pg_operator), user \in users,
          options \in SeqsUpTo(choices, MaxOptions) :
          LET stmt == [opername |-> opername, options |-> options]
              out == AlterOperatorEval(pg_operator, t_self, pg_proc, stmt, user)
          IN  /\ call' = [cmd |-> "alter", stmt |-> stmt, user |-> user]
              /\ result' = out.result
              /\ pg_operator' = out.cat
              /\ t_self' = out.tids
    /\ before' = pg_operator
    /\ warnings' = 0
    /\ pc' = "done"
    /\ UNCHANGED <<pg_proc, tup>>

AlterOperator == AlterOperatorWith(Users, AlterOptionChoices)

\* table_open, SearchSysCache1, the "should not happen" check
RemoveFetch ==
    /\ pc = "idle"
    /\ \E operOid \in DOMAIN pg_operator \cup {GetNewOid(pg_operator)} :
          /\ call' = [cmd |-> "remove", operOid |-> operOid]
          /\ before' = pg_operator
          /\ warnings' = 0
          /\ IF operOid \in DOMAIN pg_operator
             THEN /\ tup' = SearchSysCache1(pg_operator, t_self, operOid)
                  /\ result' = NoResult
                  /\ pc' = "reset"
             ELSE /\ tup' = NoTup
                  /\ result' = Error("ERRCODE_INTERNAL_ERROR",
                                     "cache lookup failed for operator", "", <<>>)
                  /\ pc' = "done"
    /\ UNCHANGED <<pg_operator, t_self, pg_proc>>

\* if (OidIsValid(op->oprcom) || OidIsValid(op->oprnegate)) OperatorUpd(...)
RemoveResetLinks ==
    /\ pc = "reset"
    /\ IF LinksToReset(tup.op)
       THEN LET st == OperatorUpd([cat |-> pg_operator, tids |-> t_self],
                                  call.operOid, tup.op.oprcom,
                                  tup.op.oprnegate, TRUE)
            IN  /\ pg_operator' = st.cat
                /\ t_self' = st.tids
                /\ pc' = "refetch"
       ELSE /\ pc' = "delete"
            /\ UNCHANGED <<pg_operator, t_self>>
    /\ UNCHANGED <<pg_proc, call, before, result, warnings, tup>>

\* if (operOid == op->oprcom || operOid == op->oprnegate) re-fetch
RemoveRefetch ==
    /\ pc = "refetch"
    /\ IF NeedRefetch(call.operOid, tup.op)
       THEN tup' = SearchSysCache1(pg_operator, t_self, call.operOid)
       ELSE tup' = tup
    /\ pc' = "delete"
    /\ UNCHANGED <<pg_operator, t_self, pg_proc, call, before, result, warnings>>

\* CatalogTupleDelete(relation, &tup->t_self), releases, table_close
RemoveDelete ==
    /\ pc = "delete"
    /\ IF tup.t_self = t_self[call.operOid]
       THEN /\ pg_operator' = Restrict(pg_operator, DOMAIN pg_operator \ {call.operOid})
            /\ t_self' = Restrict(t_self, DOMAIN t_self \ {call.operOid})
            /\ result' = Ok(InvalidOid)
       ELSE \* the tuple version was replaced: the delete fails, all is undone
            /\ pg_operator' = before
            /\ t_self' = t_self
            /\ result' = Error("ERRCODE_INTERNAL_ERROR",
                               "tuple already updated by self", "", <<>>)
    /\ pc' = "done"
    /\ UNCHANGED <<pg_proc, call, before, warnings, tup>>

\* one call of ValidateJoinEstimator(joinName) by some user
CallValidateJoinEstimator ==
    /\ pc = "idle"
    /\ \E joinName \in {"joinsel", "nosuchsel"}, user \in Users :
          /\ call' = [cmd |-> "joinest", joinName |-> joinName, user |-> user]
          /\ result' = ValidateJoinEstimator(pg_proc, joinName, user)
    /\ pc' = "done"
    /\ UNCHANGED <<pg_operator, t_self, pg_proc, before, warnings, tup>>

\* the command returns to its caller; nothing of it is kept
CommandComplete ==
    /\ pc = "done"
    /\ pc' = "idle"
    /\ call' = NoCall
    /\ before' = pg_operator
    /\ result' = NoResult
    /\ warnings' = 0
    /\ tup' = NoTup
    /\ UNCHANGED <<pg_operator, t_self, pg_proc>>

(***************************************************************************)
(* Definition: from an empty operator catalog.                             *)
(***************************************************************************)

InitDefine ==
    /\ pg_operator = <<>>
    /\ t_self = <<>>
    /\ pg_proc = DefaultProcs
    /\ pc = "idle"
    /\ call = NoCall
    /\ before = pg_operator
    /\ result = NoResult
    /\ warnings = 0
    /\ tup = NoTup

NextDefine ==
    \/ DefineOperator
    \/ CommandComplete

SpecDefine == InitDefine /\ [][NextDefine]_vars

(***************************************************************************)
(* Alteration: one operator of each shape with legal estimator bindings,   *)
(* next to a unary, non-boolean operator of another owner.                 *)
(***************************************************************************)

InitAlter ==
    /\ \E left \in {InvalidOid, INT4OID}, res \in {BOOLOID, INT4OID},
          rest \in {InvalidOid, 5}, join \in {InvalidOid, 6} :
          /\ OidIsValid(rest) => res = BOOLOID
          /\ OidIsValid(join) => res = BOOLOID /\ OidIsValid(left)
          /\ pg_operator =
                1 :> OperatorRow("=", PG_PUBLIC_NAMESPACE, "alice", left,
                                 INT4OID,
                                 (IF res = BOOLOID THEN 3 ELSE 1)
                                     + (IF OidIsValid(left) THEN 1 ELSE 0),
                                 res, InvalidOid, InvalidOid, rest, join,
                                 FALSE, FALSE)
                @@
                2 :> OperatorRow("@", PG_PUBLIC_NAMESPACE, "bob", InvalidOid,
                                 INT4OID, 1, INT4OID, InvalidOid, InvalidOid,
                                 InvalidOid, InvalidOid, FALSE, FALSE)
    /\ t_self = [o \in {1, 2} |-> 0]
    /\ pg_proc = DefaultProcs
    /\ pc = "idle"
    /\ call = NoCall
    /\ before = pg_operator
    /\ result = NoResult
    /\ warnings = 0
    /\ tup = NoTup

NextAlter ==
    \/ AlterOperator
    \/ CommandComplete

SpecAlter == InitAlter /\ [][NextAlter]_vars

(***************************************************************************)
(* Removal: every catalog of NumOperators rows whose links are symmetric.  *)
(***************************************************************************)

OperNames == <<"=", "<>", "<", ">", "<=", ">=">>

\* I6: a set link is answered by the same link on the other side
SymmetricLinks(cat) ==
    \A a \in DOMAIN cat :
        /\ OidIsValid(cat[a].oprcom) =>
              cat[a].oprcom \in DOMAIN cat /\ cat[cat[a].oprcom].oprcom = a
        /\ OidIsValid(cat[a].oprnegate) =>
              cat[a].oprnegate \in DOMAIN cat /\ cat[cat[a].oprnegate].oprnegate = a

LinkMaps(n) ==
    {l \in [1..n -> 0..n] : \A a \in 1..n : l[a] # 0 => l[l[a]] = a}

InitRemove ==
    /\ \E com \in LinkMaps(NumOperators), neg \in LinkMaps(NumOperators) :
          pg_operator = [a \in 1..NumOperators |->
              OperatorRow(OperNames[a], PG_PUBLIC_NAMESPACE, "alice",
                          INT4OID, INT4OID, 4, BOOLOID, com[a], neg[a],
                          InvalidOid, InvalidOid, FALSE, FALSE)]
    /\ t_self = [a \in 1..NumOperators |-> 0]
    /\ pg_proc = DefaultProcs
    /\ pc = "idle"
    /\ call = NoCall
    /\ before = pg_operator
    /\ result = NoResult
    /\ warnings = 0
    /\ tup = NoTup

NextRemove ==
    \/ RemoveFetch
    \/ RemoveResetLinks
    \/ RemoveRefetch
    \/ RemoveDelete
    \/ CommandComplete

SpecRemove == InitRemove /\ [][NextRemove]_vars

(***************************************************************************)
(* The join estimator validator on its own: every function catalog that    *)
(* gives the name "joinsel" any subset of the 5-argument join signature,   *)
(* the 4-argument join signature and the restriction signature, each with  *)
(* a float8 or int4 result and with or without EXECUTE for everybody.      *)
(***************************************************************************)

EstimatorSigs == <<JoinTypeId, SubSeq(JoinTypeId, 1, 4), RestrictionTypeId>>

ProcChoices == {<<ret, acl>> : ret \in {FLOAT8OID, INT4OID},
                               acl \in {Users, {"alice"}}} \cup {<<>>}

InitJoin ==
    /\ \E pick \in [1..Len(EstimatorSigs) -> ProcChoices] :
          pg_proc = {ProcRow(i, "joinsel", EstimatorSigs[i], pick[i][1], pick[i][2]) :
                        i \in {j \in 1..Len(EstimatorSigs) : pick[j] # <<>>}}
    /\ pg_operator = <<>>
    /\ t_self = <<>>
    /\ pc = "idle"
    /\ call = NoCall
    /\ before = pg_operator
    /\ result = NoResult
    /\ warnings = 0
    /\ tup = NoTup

NextJoin ==
    \/ CallValidateJoinEstimator
    \/ CommandComplete

SpecJoin == InitJoin /\ [][NextJoin]_vars

(***************************************************************************)
(* Claims about RemoveOperatorById (checked under SpecRemove).             *)
(***************************************************************************)

RemoveFinished ==
    pc = "done" /\ call.cmd = "remove" /\ call.operOid \in DOMAIN before

NoLinkTo(cat, a) ==
    \A o \in DOMAIN cat : cat[o].oprcom # a /\ cat[o].oprnegate # a

\* C1: from a catalog whose commutator/negator links are symmetric, removing
\* an existing operator A succeeds (also when A is its own commutator or
\* negator); afterwards A is gone, no remaining operator has A as commutator
\* or negator, and a distinct commutator (negator) B of A has its commutator
\* (negator) link cleared.
C1_NoDanglingLink ==
    (RemoveFinished /\ SymmetricLinks(before)) =>
        LET a == call.operOid
            b == before[a].oprcom
            n == before[a].oprnegate
        IN  /\ result.status = "ok"
            /\ a \notin DOMAIN pg_operator
            /\ NoLinkTo(pg_operator, a)
            /\ (OidIsValid(b) /\ b # a) => pg_operator[b].oprcom = InvalidOid
            /\ (OidIsValid(n) /\ n # a) => pg_operator[n].oprnegate = InvalidOid

\* C1 witness: a self-commutator whose negator is another operator was removed
C1_Witness ==
    /\ RemoveFinished
    /\ result.status = "ok"
    /\ before[call.operOid].oprcom = call.operOid
    /\ OidIsValid(before[call.operOid].oprnegate)
    /\ before[call.operOid].oprnegate # call.operOid

\* C10: the row of the operator being removed disappears only in the delete
\* step, and at that moment the tuple held by the operation is the row's
\* current version and no other operator still links to it; while the
\* operation waits to delete, its tuple is already the current version.
C10_DeleteSeesLatestTuple ==
    [][ /\ (pc' = "delete" /\ call'.cmd = "remove") =>
              /\ call'.operOid \in DOMAIN pg_operator'
              /\ tup'.t_self = t_self'[call'.operOid]
              /\ \A o \in DOMAIN pg_operator' \ {call'.operOid} :
                    /\ pg_operator'[o].oprcom # call'.operOid
                    /\ pg_operator'[o].oprnegate # call'.operOid
        /\ (DOMAIN pg_operator' # DOMAIN pg_operator) =>
              /\ pc = "delete"
              /\ DOMAIN pg_operator' = DOMAIN pg_operator \ {call.operOid}
              /\ tup.t_self = t_self[call.operOid]
      ]_vars

\* C10 witness: about to delete a self-negator whose commutator is another
\* operator, after the links were reset and the tuple re-fetched
C10_Witness ==
    /\ pc = "delete"
    /\ before[call.operOid].oprnegate = call.operOid
    /\ OidIsValid(before[call.operOid].oprcom)
    /\ before[call.operOid].oprcom # call.operOid
    /\ t_self[call.operOid] > 0

(***************************************************************************)
(* Claims about ValidateJoinEstimator (checked under SpecJoin).            *)
(***************************************************************************)

JoinCalled == pc = "done" /\ call.cmd = "joinest"

\* the functions of the called name with the 5- and the 4-argument signature
Match5 == {p \in pg_proc : p.proname = call.joinName /\ p.proargtypes = JoinTypeId}

Match4 == {p \in pg_proc : p.proname = call.joinName
                              /\ p.proargtypes = SubSeq(JoinTypeId, 1, 4)}

IsAmbiguous ==
    result.status = "error" /\ result.errcode = "ERRCODE_AMBIGUOUS_FUNCTION"

IsUndefined5 ==
    /\ result.status = "error"
    /\ result.errcode = "ERRCODE_UNDEFINED_FUNCTION"
    /\ result.errname = call.joinName
    /\ result.errsig = JoinTypeId

Returns(p) == result.status = "ok" /\ result.value = p.oid

\* C2 as stated: which signatures match alone decides the outcome
C2_Original ==
    JoinCalled =>
        /\ (Match5 = {} /\ Match4 # {}) => \E p \in Match4 : Returns(p)
        /\ (Match5 # {} /\ Match4 = {}) => \E p \in Match5 : Returns(p)
        /\ (Match5 # {} /\ Match4 # {}) => IsAmbiguous
        /\ (Match5 = {} /\ Match4 = {}) => IsUndefined5

\* the outcome for the single matching function p
SelectedOutcome(p) ==
    /\ (p.prorettype = FLOAT8OID /\ call.user \in p.proacl) => Returns(p)
    /\ p.prorettype # FLOAT8OID =>
          result.status = "error"
          /\ result.errcode = "ERRCODE_INVALID_OBJECT_DEFINITION"
    /\ (p.prorettype = FLOAT8OID /\ call.user \notin p.proacl) =>
          result.status = "error"
          /\ result.errcode = "ERRCODE_INSUFFICIENT_PRIVILEGE"

\* C2 (amended): the signatures that match decide which function is
\* selected: the only match of the two, AmbiguousFunction when both match,
\* UndefinedFunction naming the 5-parameter signature when neither does; the
\* selected function is returned if it returns float8 and the caller may
\* execute it, and otherwise the call fails; nothing is returned in the
\* both-match and neither-match cases.
C2_JoinEstimatorResolution ==
    JoinCalled =>
        /\ (Match5 = {} /\ Match4 # {}) => \A p \in Match4 : SelectedOutcome(p)
        /\ (Match5 # {} /\ Match4 = {}) => \A p \in Match5 : SelectedOutcome(p)
        /\ (Match5 # {} /\ Match4 # {}) => IsAmbiguous
        /\ (Match5 = {} /\ Match4 = {}) => IsUndefined5
        /\ result.status = "ok" =>
              /\ (Match5 = {}) # (Match4 = {})
              /\ \E p \in Match5 \cup Match4 : result.value = p.oid

\* C2 witness: the name matches the legacy 4-argument signature only and
\* that function is returned
C2_Witness ==
    /\ JoinCalled
    /\ Match5 = {} /\ Match4 # {}
    /\ \E p \in Match4 : Returns(p)

(***************************************************************************)
(* Claims about AlterOperator (checked under SpecAlter).                   *)
(***************************************************************************)

AlterDone == pc = "done" /\ call.cmd = "alter"

\* the operator the statement names, as it was before the command
AlterTargets ==
    {o \in DOMAIN before : /\ before[o].oprname = call.stmt.opername.objname
                           /\ before[o].oprleft = call.stmt.opername.objargs[1]
                           /\ before[o].oprright = call.stmt.opername.objargs[2]}

OptionKeys == {call.stmt.options[i].defname : i \in 1..Len(call.stmt.options)}

Supplied(key) == key \in OptionKeys

\* the argument of the last option with this key
SuppliedArg(key) ==
    LET at == {i \in 1..Len(call.stmt.options) : call.stmt.options[i].defname = key}
    IN  call.stmt.options[CHOOSE i \in at : \A j \in at : j <= i].arg

OtherFieldsKept(old, new) ==
    /\ new.oprname = old.oprname
    /\ new.oprnamespace = old.oprnamespace
    /\ new.oprowner = old.oprowner
    /\ new.oprleft = old.oprleft
    /\ new.oprright = old.oprright
    /\ new.oprcode = old.oprcode
    /\ new.oprresult = old.oprresult
    /\ new.oprcom = old.oprcom
    /\ new.oprnegate = old.oprnegate
    /\ new.oprcanmerge = old.oprcanmerge
    /\ new.oprcanhash = old.oprcanhash

\* C3: a successful alter changes only the estimator fields its list names:
\* join = none clears oprjoin, restrict = none clears oprrest, a field the
\* list does not name keeps its value, every other field of the operator and
\* every other operator are unchanged.
C3_AlterFrame ==
    (AlterDone /\ result.status = "ok") =>
        \A o \in AlterTargets :
            /\ DOMAIN pg_operator = DOMAIN before
            /\ \A other \in DOMAIN before \ {o} : pg_operator[other] = before[other]
            /\ OtherFieldsKept(before[o], pg_operator[o])
            /\ ~Supplied("restrict") => pg_operator[o].oprrest = before[o].oprrest
            /\ ~Supplied("join") => pg_operator[o].oprjoin = before[o].oprjoin
            /\ (Supplied("join") /\ SuppliedArg("join") = NullArg) =>
                  pg_operator[o].oprjoin = InvalidOid
            /\ (Supplied("restrict") /\ SuppliedArg("restrict") = NullArg) =>
                  pg_operator[o].oprrest = InvalidOid

\* C3 witness: join = none alone cleared the join estimator of an operator
\* that keeps its restriction estimator
C3_Witness ==
    /\ AlterDone /\ result.status = "ok"
    /\ OptionKeys = {"join"} /\ SuppliedArg("join") = NullArg
    /\ \E o \in AlterTargets :
          /\ OidIsValid(before[o].oprjoin)
          /\ OidIsValid(before[o].oprrest)
          /\ pg_operator[o].oprrest = before[o].oprrest
          /\ pg_operator[o].oprjoin = InvalidOid

IsBinary(row) == OidIsValid(row.oprleft) /\ OidIsValid(row.oprright)

InvalidDefinition ==
    /\ result.status = "error"
    /\ result.errcode = "ERRCODE_INVALID_FUNCTION_DEFINITION"

\* the caller owns the operator, the list has only restrict / join options,
\* and each estimator they name passes its validator
AlterReachesShapeChecks(o) ==
    /\ before[o].oprowner = call.user
    /\ OptionKeys \subseteq {"restrict", "join"}
    /\ (Supplied("restrict") /\ SuppliedArg("restrict") # NullArg) =>
          ValidateRestrictionEstimator(pg_proc, SuppliedArg("restrict"),
                                       call.user).status = "ok"
    /\ (Supplied("join") /\ SuppliedArg("join") # NullArg) =>
          ValidateJoinEstimator(pg_proc, SuppliedArg("join"),
                                call.user).status = "ok"

NamesFunction(key) == Supplied(key) /\ SuppliedArg(key) # NullArg

\* C5 as stated, for calls that get as far as the shape checks: any supplied
\* join on a non-binary operator, and any supplied restrict or join on a
\* non-boolean operator, is rejected with InvalidDefinition
C5_Original ==
    AlterDone =>
        \A o \in AlterTargets :
            AlterReachesShapeChecks(o) =>
                /\ (~IsBinary(before[o]) /\ Supplied("join")) => InvalidDefinition
                /\ (before[o].oprresult # BOOLOID
                        /\ (Supplied("restrict") \/ Supplied("join"))) =>
                      InvalidDefinition

\* C5 (amended): when the caller owns the operator, the list has only
\* restrict / join options and every named estimator validates, a join
\* option naming a function is rejected with InvalidDefinition on a stored
\* non-binary operator, and a restrict or join option naming a function is
\* rejected with InvalidDefinition on a stored non-boolean operator; options
\* given as "none" are not rejected for shape: without a named function the
\* alter succeeds.  So on a unary non-boolean operator restrict = f and
\* join = f both fail, restrict = none and join = none both succeed.
C5_AlterShapeRevalidation ==
    AlterDone =>
        \A o \in AlterTargets :
            AlterReachesShapeChecks(o) =>
                /\ (~IsBinary(before[o]) /\ NamesFunction("join")) =>
                      /\ InvalidDefinition
                      /\ pg_operator = before
                /\ (before[o].oprresult # BOOLOID
                        /\ (NamesFunction("restrict") \/ NamesFunction("join"))) =>
                      /\ InvalidDefinition
                      /\ pg_operator = before
                /\ (~NamesFunction("restrict") /\ ~NamesFunction("join")) =>
                      result.status = "ok"

\* C5 witness: the owner of a unary operator with a non-boolean result asked
\* for a join estimator function and was refused
C5_Witness ==
    /\ AlterDone
    /\ InvalidDefinition
    /\ \E o \in AlterTargets :
          /\ AlterReachesShapeChecks(o)
          /\ ~IsBinary(before[o])
          /\ before[o].oprresult # BOOLOID
          /\ OptionKeys = {"join"}
          /\ NamesFunction("join")

\* C6: every operator keeps legal estimator bindings: a restriction
\* estimator only with a boolean result, a join estimator only with a
\* boolean result and a left operand, whatever alters ran, passed or failed.
C6_EstimatorsLegal ==
    \A o \in DOMAIN pg_operator :
        /\ OidIsValid(pg_operator[o].oprrest) => pg_operator[o].oprresult = BOOLOID
        /\ OidIsValid(pg_operator[o].oprjoin) =>
              /\ pg_operator[o].oprresult = BOOLOID
              /\ OidIsValid(pg_operator[o].oprleft)

\* C6 witness: an alter has bound both estimators of an operator that had
\* none, after an earlier alter of that operator
C6_Witness ==
    /\ AlterDone /\ result.status = "ok"
    /\ \E o \in AlterTargets :
          /\ t_self[o] > 1
          /\ ~OidIsValid(before[o].oprrest) /\ ~OidIsValid(before[o].oprjoin)
          /\ OidIsValid(pg_operator[o].oprrest) /\ OidIsValid(pg_operator[o].oprjoin)

\* the option keys AlterOperator raises a syntax error for
BadAlterKeys == OptionKeys \ {"restrict", "join"}

NotOwner ==
    /\ result.status = "error"
    /\ result.errcode = "ERRCODE_INSUFFICIENT_PRIVILEGE"
    /\ result.errmsg = "must be owner of operator"

\* C8 as stated: whatever the list, a caller who does not own the operator
\* gets NotOwner and the operator is unchanged
C8_Original ==
    AlterDone =>
        \A o \in AlterTargets :
            before[o].oprowner # call.user =>
                NotOwner /\ pg_operator = before

\* C8 (amended): ownership is checked after the option list has been
\* scanned and before any estimator is looked up: a caller who does not own
\* the operator gets NotOwner for every list of restrict / join options
\* (whatever they name), gets the syntax error of the list's immutable or
\* unrecognized option when there is one, and in all cases leaves the
\* catalog unchanged.
C8_OwnershipCheck ==
    AlterDone =>
        \A o \in AlterTargets :
            before[o].oprowner # call.user =>
                /\ result.status = "error"
                /\ pg_operator = before
                /\ BadAlterKeys = {} => NotOwner
                /\ BadAlterKeys # {} =>
                      /\ result.errcode = "ERRCODE_SYNTAX_ERROR"
                      /\ result.errname \in BadAlterKeys

\* C8 witness: a caller who is not the owner named an estimator that does
\* not exist and was refused as not being the owner
C8_Witness ==
    /\ AlterDone
    /\ NotOwner
    /\ \E o \in AlterTargets : before[o].oprowner # call.user
    /\ Supplied("restrict") /\ SuppliedArg("restrict") = "nosuchsel"

(***************************************************************************)
(* Claims about DefineOperator (checked under SpecDefine).                 *)
(***************************************************************************)
DefineDone == pc = "done" /\ call.cmd = "define"

HasParam(keys) ==
    \E i \in 1..Len(call.parameters) : call.parameters[i].defname \in keys

\* the argument of the last parameter with one of these keys, if any
ParamArg(keys) ==
    LET at == {i \in 1..Len(call.parameters) : call.parameters[i].defname \in keys}
    IN  IF at = {} THEN NullArg
        ELSE call.parameters[CHOOSE i \in at : \A j \in at : j <= i].arg

AnySetof ==
    \E i \in 1..Len(call.parameters) :
        call.parameters[i].defname \in {"leftarg", "rightarg"}
        /\ call.parameters[i].setof

NoTypesGiven == ~HasParam({"leftarg", "rightarg"})

OnlyLeftGiven == HasParam({"leftarg"}) /\ ~HasParam({"rightarg"})

FunctionNamed == HasParam({"function", "procedure"})

MayCreate == pg_namespace_aclcheck(PG_PUBLIC_NAMESPACE, call.user)

TypesMissingError ==
    /\ result.status = "error"
    /\ result.errcode = "ERRCODE_INVALID_FUNCTION_DEFINITION"
    /\ result.errmsg = "operator argument types must be specified"

PostfixError ==
    /\ result.status = "error"
    /\ result.errcode = "ERRCODE_INVALID_FUNCTION_DEFINITION"
    /\ result.errmsg = "operator right argument type must be specified"

\* C9 as stated, for callers allowed to create in the namespace: every list
\* without operand types gets the generic message, every list with a left
\* type only gets the postfix message
C9_Original ==
    (DefineDone /\ MayCreate) =>
        /\ NoTypesGiven => TypesMissingError
        /\ OnlyLeftGiven => PostfixError
        /\ NoTypesGiven => ~PostfixError

\* C9 (amended): for a caller allowed to create in the namespace and a list
\* that names the function, a list without operand types fails
\* InvalidDefinition with "operator argument types must be specified", and a
\* list with a left type that is no SETOF type and resolves, and no right
\* type, fails InvalidDefinition with "operator right argument type must be
\* specified"; the postfix message is never produced when both types are
\* missing.
C9_MissingOperandTypes ==
    DefineDone =>
        /\ NoTypesGiven => ~PostfixError
        /\ (MayCreate /\ FunctionNamed) =>
              /\ NoTypesGiven => TypesMissingError
              /\ (OnlyLeftGiven /\ ~AnySetof
                    /\ typenameTypeId(ParamArg({"leftarg"})).status = "ok") =>
                    PostfixError

\* C9 witness: a list with a function and a left operand type only was
\* refused with the postfix message
C9_Witness ==
    /\ DefineDone
    /\ FunctionNamed /\ OnlyLeftGiven
    /\ PostfixError

\* the caller holds every privilege DefineOperator asks for
CallerPrivileged ==
    /\ MayCreate
    /\ pg_type_aclcheck(INT4OID, call.user)
    /\ pg_type_aclcheck(BOOLOID, call.user)
    /\ \A p \in pg_proc : call.user \in p.proacl

TypeIdOf(typeName) ==
    IF typeName = NullArg THEN InvalidOid ELSE typenameTypeId(typeName).value

TypesResolve ==
    /\ ~AnySetof
    /\ HasParam({"leftarg"}) => typenameTypeId(ParamArg({"leftarg"})).status = "ok"
    /\ HasParam({"rightarg"}) => typenameTypeId(ParamArg({"rightarg"})).status = "ok"

\* the function the definition is bound to, once its operand types resolve
UnderlyingFunction ==
    DefineFunctionLookup(pg_proc, ParamArg({"function", "procedure"}),
                         TypeIdOf(ParamArg({"leftarg"})),
                         TypeIdOf(ParamArg({"rightarg"})))

\* the definition names a function that exists for its operand types
FunctionResolves ==
    /\ FunctionNamed /\ TypesResolve /\ HasParam({"rightarg"})
    /\ UnderlyingFunction.status = "ok"

ReturnsNonBoolean ==
    FunctionResolves /\ get_func_rettype(pg_proc, UnderlyingFunction.value) # BOOLOID

EstimatorsValidate ==
    /\ HasParam({"restrict"}) =>
          ValidateRestrictionEstimator(pg_proc, ParamArg({"restrict"}),
                                       call.user).status = "ok"
    /\ HasParam({"join"}) =>
          ValidateJoinEstimator(pg_proc, ParamArg({"join"}), call.user).status = "ok"

DefinitionRejected ==
    /\ result.status = "error"
    /\ result.errcode \in {"ERRCODE_INVALID_FUNCTION_DEFINITION",
                           "ERRCODE_INVALID_OBJECT_DEFINITION"}
    /\ pg_operator = before

\* C4 as stated, for callers holding every privilege: a definition without
\* left type and with join fails InvalidDefinition, and so does one whose
\* function does not return boolean and that has restrict
C4_Original ==
    (DefineDone /\ CallerPrivileged) =>
        /\ (~HasParam({"leftarg"}) /\ HasParam({"join"})) => DefinitionRejected
        /\ (ReturnsNonBoolean /\ HasParam({"restrict"})) => DefinitionRejected

\* C4 (amended): a definition without left type and with join, and a
\* definition whose function does not return boolean and that has restrict,
\* always fail and persist no operator; the failure is InvalidDefinition
\* whenever the caller holds the privileges asked for, the function
\* resolves for the operand types and the named estimators validate (else it
\* is the error of the check that failed first).
C4_IllegalEstimatorRejected ==
    DefineDone =>
        /\ (~HasParam({"leftarg"}) /\ HasParam({"join"})) =>
              /\ result.status = "error"
              /\ pg_operator = before
              /\ (CallerPrivileged /\ FunctionResolves /\ EstimatorsValidate) =>
                    DefinitionRejected
        /\ (ReturnsNonBoolean /\ HasParam({"restrict"})) =>
              /\ result.status = "error"
              /\ pg_operator = before
              /\ (CallerPrivileged /\ EstimatorsValidate) => DefinitionRejected

\* C4 witness: a prefix operator over a resolvable function, with a join
\* estimator that validates, was refused as an invalid definition
C4_Witness ==
    /\ DefineDone
    /\ ~HasParam({"leftarg"}) /\ HasParam({"join"})
    /\ CallerPrivileged /\ FunctionResolves /\ EstimatorsValidate
    /\ DefinitionRejected
    /\ result.errmsg = "only binary operators can have join selectivity"

(***************************************************************************)
(* The three commands together, on few users, parameters and options.      *)
(***************************************************************************)
FewUsers == {"alice", "bob"}

FewParamChoices ==
    { DefElem("leftarg", "int4"), DefElem("rightarg", "int4"),
      DefElem("function", "f_bool"), DefElem("restrict", "eqsel"),
      DefElem("negator", "="), DefElem("foo", "bar") }

FewOptionChoices ==
    { DefElem("restrict", NullArg), DefElem("join", "eqjoinsel"),
      DefElem("merges", NullArg), DefElem("foo", "bar") }

DefineOperatorFew == DefineOperatorWith(FewUsers, FewParamChoices)

AlterOperatorFew == AlterOperatorWith(FewUsers, FewOptionChoices)

Init == InitDefine

Next ==
    \/ DefineOperatorFew
    \/ AlterOperatorFew
    \/ RemoveFetch
    \/ RemoveResetLinks
    \/ RemoveRefetch
    \/ RemoveDelete
    \/ CommandComplete

Spec == Init /\ [][Next]_vars

(***************************************************************************)
(* Claim about unrecognized keys (checked under Spec).                     *)
(***************************************************************************)
RecognizedDefineKeys ==
    {"leftarg", "rightarg", "function", "procedure", "commutator", "negator",
     "restrict", "join", "hashes", "merges", "sort1", "sort2", "ltcmp", "gtcmp"}

IsRecognized(defel) == defel.defname \in RecognizedDefineKeys

\* what DefineOperator does with the list stripped of its unrecognized keys
DefineWithoutUnrecognized ==
    DefineOperatorEval(before, [o \in DOMAIN before |-> 0], pg_proc, call.names,
                       SelectSeq(call.parameters, IsRecognized), call.user)

UnrecognizedCount ==
    Cardinality({i \in 1..Len(call.parameters) : ~IsRecognized(call.parameters[i])})

\* C7: DefineOperator given a list with unrecognized keys has the outcome
\* and leaves the catalog it does for the list without them, so an
\* otherwise valid definition succeeds and persists the same operator, and
\* it then has emitted one warning per unrecognized key; AlterOperator
\* given an option with such a key fails and leaves the catalog unchanged.
C7_UnrecognizedKey ==
    /\ DefineDone =>
          /\ result = DefineWithoutUnrecognized.result
          /\ pg_operator = DefineWithoutUnrecognized.cat
          /\ DefineWithoutUnrecognized.result.status = "ok" =>
                /\ result.status = "ok"
                /\ warnings = UnrecognizedCount
    /\ (AlterDone /\ \E i \in 1..Len(call.stmt.options) :
                        ~IsRecognized(call.stmt.options[i])) =>
          /\ result.status = "error"
          /\ pg_operator = before

\* C7 witness: a definition with the unrecognized key "foo" has created an
\* operator and emitted its warning
C7_Witness ==
    /\ DefineDone
    /\ result.status = "ok"
    /\ warnings = 1
    /\ \E i \in 1..Len(call.parameters) : call.parameters[i].defname = "foo"
    /\ result.value \in DOMAIN pg_operator /\ result.value \notin DOMAIN before

=============================================================================
